---- MODULE Spec2Model ----
(***************************************************************************)
(* The persisted-media lifecycle of the camera application:                *)
(*   - MediaDatabase (src/src/utils/fruitDetector.ts, lines 188-394), the  *)
(*     IndexedDB wrapper: init / ensureDB / storeMedia / getAllMedia /     *)
(*     deleteMedia / clearAllMedia and the module-level init() call;       *)
(*   - useMediaCapture (src/src/hooks/useMediaCapture.ts), the hook that   *)
(*     owns capturedMedia and isLoading;                                   *)
(*   - useFruitDetection (src/src/hooks/useFruitDetection.ts), the hook    *)
(*     that throttles and issues detection requests (detection);           *)
(*   - App (src/src/App.tsx): the permission gate of the render and the    *)
(*     camera facing (app).                                                *)
(*                                                                         *)
(* The browser is modelled by what the code relies on:                     *)
(*   - IndexedDB open requests on one database are served in the order     *)
(*     they were made (openQ), each succeeding or failing;                 *)
(*   - transactions on the one object store run in the order they were     *)
(*     created (txQ); a request's effect on the store and the delivery of  *)
(*     its onsuccess/onerror callback, with the promise continuation that  *)
(*     follows in the same microtask checkpoint, are one step;             *)
(*   - URL.createObjectURL returns a fresh URL; URL.revokeObjectURL is     *)
(*     logged per URL (revokes), so that releases can be counted;          *)
(*   - React applies a state update as one step, and a state update on an  *)
(*     unmounted component is dropped.                                     *)
(***************************************************************************)
EXTENDS Integers, Sequences, FiniteSets, TLC

\* ---------------------------------------------------------------- bounds

\* Records that may already be in the store when the page is first loaded.
MaxStored == 2
\* addMedia calls over the whole run.
MaxAdds == 2
\* clearAllMedia calls over the whole run.
MaxClears == 1
\* Page reloads over the whole run.
MaxReloads == 1
\* Open requests and store requests that fail, over the whole run.
MaxFailures == 1
\* Store operations of the hook that are in flight at one time.
MaxPending == 2
\* mediaDatabase.close() calls over the whole run.
MaxCloses == 2
\* Date.now() at the last moment the detection hook is observed, in ms.
MaxTime == 2002
\* Detection requests that reach the detector over the whole run.
MaxDetections == 3
\* initializeDetector calls over the whole run.
MaxInits == 2
\* clearResults calls over the whole run.
MaxClearResults == 1
\* toggleCameraFacing calls over the whole run.
MaxToggles == 2
\* Changes of the screen size class over the whole run.
MaxResizes == 1
\* Uses of the 'Try Again' button over the whole run.
MaxTries == 1

VARIABLES
    db,             \* MediaDatabase.db: TRUE when a connection is held, FALSE for null
    openConns,      \* IndexedDB connections opened by this page and not closed
    openQ,          \* indexedDB.open requests in flight, oldest first, each with the operation waiting for it
    txQ,            \* transactions created on the object store, oldest first
    store,          \* the 'media' object store: a set of StoredMediaData, one per id
    capturedMedia,  \* useMediaCapture state: the Collection, a sequence of CapturedMedia
    isLoading,      \* useMediaCapture state
    mountState,     \* "loaded": module loaded, hook not mounted; "mounted"; "unmounted"
    revokes,        \* revokes[u]: the callers that revoked object URL u, in order
    clock,          \* Date.now(), advanced by every capture
    nAdds, nClears, nReloads, nFailures,
    session,        \* number of the current page load
    putFailed,      \* history: <<id, session>> of every record whose storeMedia rejected
    unhandled,      \* TRUE once a promise of the hook or of the module-level init() rejected unhandled
    clearedBelow,   \* history: every record created before clock value clearedBelow had its
                    \* addMedia issued before a clearAllMedia whose store clear() succeeded
    ev,             \* the handler that ran last: [op, ok, id]
    nCloses,        \* mediaDatabase.close() calls over the whole run
    sinceClose,     \* history: "close" and the store operations the hook has called since the
                    \* last close() of this page load; empty while there was none
    emptyRevokes,   \* history: the callers that passed the url '' to URL.revokeObjectURL
    detection,      \* useFruitDetection: its state, its refs, the clock and the requests in flight
    app             \* App: its state and the environment it reads

vars == <<db, openConns, openQ, txQ, store, capturedMedia, isLoading, mountState,
          revokes, clock, nAdds, nClears, nReloads, nFailures, session, putFailed,
          unhandled, clearedBelow, ev, nCloses, sinceClose, emptyRevokes,
          detection, app>>

\* ------------------------------------------------------------ data model

CameraMode == {"photo", "video"}

\* useMediaCapture.ts:191
Extension(type) == IF type = "photo" THEN "jpg" ELSE "webm"

\* useMediaCapture.ts:192: the filename is a function of type and timestamp.
Filename(type, timestamp) == <<type, timestamp, Extension(type)>>

\* The url '' (useMediaCapture.ts:187); every other url is a 'blob:' url.
EmptyUrl == 0

\* media.indexedDbId left undefined.
NoIndexedDbId == 0

NoMedia == [id |-> 0, type |-> "photo", url |-> EmptyUrl, blob |-> 0,
            timestamp |-> 0, filename |-> <<>>, indexedDbId |-> NoIndexedDbId]

\* StoredMediaData built by addMedia from the CapturedMedia it was given.
StoredData(media) ==
    [id |-> media.id, type |-> media.type, blob |-> media.blob,
     timestamp |-> media.timestamp, filename |-> media.filename]

\* A request waiting in openQ or txQ: the MediaDatabase method that was called
\* and what its caller's continuation closes over.
Request(kind, media, id, snap, issuedAt) ==
    [kind |-> kind, media |-> media, id |-> id, snap |-> snap, issuedAt |-> issuedAt]

InitRequest == Request("init", NoMedia, 0, <<>>, 0)

Event(op, ok, id) == [op |-> op, ok |-> ok, id |-> id]

Range(s) == {s[i] : i \in 1..Len(s)}

CollectionIds == {capturedMedia[i].id : i \in 1..Len(capturedMedia)}

StoreIds == {r.id : r \in store}

Pending == Range(openQ) \cup Range(txQ)

\* The store operations the hook has called and that have not settled.
InFlight == Len(SelectSeq(openQ, LAMBDA r : r.kind # "init")) + Len(txQ)

PendingPuts == {r \in Pending : r.kind = "put"}

\* The number of puts of `id` in the queues oq (open requests) and tq (transactions).
PutsPending(oq, tq, id) == Len(SelectSeq(oq \o tq, LAMBDA r : r.kind = "put" /\ r.id = id))

RestorePending == \E r \in Pending : r.kind = "getAll"

\* --------------------------------------------------------- object URLs

\* URL.createObjectURL: the next fresh URL.
CreateObjectURL(revs) == Len(revs) + 1

\* URL.revokeObjectURL(url), called by `who`; a url that names no object URL
\* of the document (the url '' is one) is ignored by the browser.
RevokeObjectURL(revs, url, who) ==
    IF url \in DOMAIN revs THEN [revs EXCEPT ![url] = Append(@, who)] ELSE revs

\* A variant of StartsWithBlob without the test: every url is revoked.
StartsWithBlob_Always(url) == TRUE

\* url.startsWith('blob:'): true of every object URL, false of ''.
StartsWithBlob(url) == url # EmptyUrl

\* Whether revoking the urls of `list` under the guard passes '' to revokeObjectURL.
RevokesEmptyUrl(list) ==
    \E i \in 1..Len(list) : StartsWithBlob(list[i].url) /\ list[i].url = EmptyUrl

Revoked(url) == Len(revokes[url]) > 0


\* ------------------------------------------------- MediaDatabase (store)

\* A variant of StorePut that adds the record next to an entry of the same id.
StorePut_Adds(st, mediaData) == st \cup {mediaData}

\* store.put(mediaData): upsert by the key path 'id'.
StorePut(st, mediaData) == {r \in st : r.id # mediaData.id} \cup {mediaData}

\* The store after a readwrite transaction whose put request had succeeded
\* aborted (at commit, for one): the put is rolled back.
StoreAfterAbort(st, mediaData) == st

\* store.delete(id): a missing key is no error.
StoreDelete(st, id) == {r \in st : r.id # id}

\* store.clear()
StoreClear(st) == {}

\* store.getAll(): every record of the store, as an array. The order is left
\* open: the caller does not rely on one.
RECURSIVE GetAllResults(_)
GetAllResults(st) ==
    IF st = {} THEN {<<>>}
    ELSE UNION {{<<r>> \o rest : rest \in GetAllResults(st \ {r})} : r \in st}

\* A variant of DbAfterClose that closes the connection and keeps the reference.
DbAfterClose_Keeps(held) == held

\* close(): `this.db = null` after `this.db.close()`.
DbAfterClose(held) == FALSE

\* ensureDB: a caller that finds this.db set creates its transaction at once;
\* one that finds it null calls init() and waits for its own open request.
EnsureDB(req) ==
    /\ InFlight < MaxPending
    /\ IF db
       THEN /\ txQ' = Append(txQ, req)
            /\ openQ' = openQ
       ELSE /\ openQ' = Append(openQ, req)
            /\ txQ' = txQ

\* sinceClose after the hook called the store operation `kind`.
Called(kind) == IF "close" \in sinceClose THEN sinceClose \cup {kind} ELSE sinceClose

\* ------------------------------------------------------ useMediaCapture

\* createMediaFromBlob: id and timestamp come from Date.now(), the url from
\* URL.createObjectURL(blob).
CreateMediaFromBlob(blob, type, now, url) ==
    [id |-> now, type |-> type, url |-> url, blob |-> blob, timestamp |-> now,
     filename |-> Filename(type, now), indexedDbId |-> NoIndexedDbId]

\* A variant of AddMediaResolved that appends: [...prev, mediaWithId].
AddMediaResolved_Appends(media, indexedDbId, prev) ==
    prev \o <<[media EXCEPT !.indexedDbId = indexedDbId]>>

\* addMedia after storeMedia resolved: setCapturedMedia(prev => [mediaWithId, ...prev])
AddMediaResolved(media, indexedDbId, prev) ==
    <<[media EXCEPT !.indexedDbId = indexedDbId]>> \o prev

\* A variant of AddMediaRejected that only logs: the record is dropped.
AddMediaRejected_Drops(media, prev) == prev

\* addMedia's catch: setCapturedMedia(prev => [media, ...prev])
AddMediaRejected(media, prev) == <<media>> \o prev

\* A variant of CatchStoreCalls that tries the put again.
CatchStoreCalls_Retries(req) == <<req>>

\* The store calls addMedia's catch block makes for the put that rejected:
\* it logs and calls setCapturedMedia, nothing else.
CatchStoreCalls(req) == <<>>

\* A variant of FindMedia that takes the first handle of the list, whatever its id.
FindMedia_First(prev, id) == 1

\* prev.find(m => m.id === id): the index of the first match, 0 when there is none.
FindMedia(prev, id) ==
    IF \E i \in 1..Len(prev) : prev[i].id = id
    THEN CHOOSE i \in 1..Len(prev) :
            /\ prev[i].id = id
            /\ \A j \in 1..(i - 1) : prev[j].id # id
    ELSE 0

\* A variant of FilterOut with the test inverted: prev.filter(m => m.id === id).
FilterOut_Inverted(prev, id) == SelectSeq(prev, LAMBDA m : m.id = id)

\* A variant of HasStoreMirror without the test: deleteMedia is always called.
HasStoreMirror_Always(media) == TRUE

\* removeMedia's `if (mediaToRemove.indexedDbId)`.
HasStoreMirror(media) == media.indexedDbId # NoIndexedDbId

\* prev.filter(m => m.id !== id)
FilterOut(prev, id) == SelectSeq(prev, LAMBDA m : m.id # id)

\* list.forEach(media => { if (media.url.startsWith('blob:')) URL.revokeObjectURL(media.url) })
RECURSIVE RevokeEach(_, _, _)
RevokeEach(list, revs, who) ==
    IF list = <<>> THEN revs
    ELSE RevokeEach(Tail(list),
                    IF StartsWithBlob(Head(list).url)
                    THEN RevokeObjectURL(revs, Head(list).url, who)
                    ELSE revs,
                    who)

\* The capturedMedia the unmount cleanup closes over: the effect has no
\* dependencies, so it is the value of the first render, useState([]).
UnmountClosure == <<>>

\* storedMedia.map(stored => ({..., url: URL.createObjectURL(stored.blob), indexedDbId: stored.id}))
RestoreMap(storedMedia, revs) ==
    [i \in 1..Len(storedMedia) |->
        [id |-> storedMedia[i].id, type |-> storedMedia[i].type,
         url |-> Len(revs) + i, blob |-> storedMedia[i].blob,
         timestamp |-> storedMedia[i].timestamp, filename |-> storedMedia[i].filename,
         indexedDbId |-> storedMedia[i].id]]

\* The object URL registry after the map created one URL per stored record.
RestoreUrls(storedMedia, revs) == revs \o [i \in 1..Len(storedMedia) |-> <<>>]

\* Array.prototype.sort is stable: an element is placed after every element
\* already placed that the comparator does not order after it.
RECURSIVE SortInsert(_, _)
SortInsert(sorted, m) ==
    IF sorted = <<>> THEN <<m>>
    ELSE IF m.timestamp - Head(sorted).timestamp > 0
         THEN <<m>> \o sorted
         ELSE <<Head(sorted)>> \o SortInsert(Tail(sorted), m)

\* A variant of SortNewestFirst that leaves the array as getAllMedia returned it.
SortNewestFirst_Unsorted(list) == list

\* restoredMedia.sort((a, b) => b.timestamp - a.timestamp)
RECURSIVE SortNewestFirst(_)
SortNewestFirst(list) ==
    IF list = <<>> THEN <<>>
    ELSE SortInsert(SortNewestFirst(SubSeq(list, 1, Len(list) - 1)), list[Len(list)])

\* loadPersistedMedia after getAllMedia resolved with storedMedia: the new capturedMedia.
LoadPersistedMedia(storedMedia, revs, prev) ==
    IF Len(storedMedia) > 0
    THEN SortNewestFirst(RestoreMap(storedMedia, revs))
    ELSE prev

\* A variant of IsLoadingAfterRestore with setIsLoading(false) at the end of
\* the try block instead of in `finally`.
IsLoadingAfterRestore_OnlyOnSuccess(ok) == ~ok

\* loadPersistedMedia's `finally { setIsLoading(false) }`: the flag after the
\* restore settled, whether getAllMedia resolved (ok) or rejected.
IsLoadingAfterRestore(ok) == FALSE

\* A variant of ClearAllMediaAfter without the try/catch: a rejected clear()
\* leaves the function before it reaches setCapturedMedia([]).
ClearAllMediaAfter_Aborts(ok, prev) == IF ok THEN <<>> ELSE prev

\* clearAllMedia after the try/catch around the store call: setCapturedMedia([]).
ClearAllMediaAfter(ok, prev) == <<>>

\* What becomes of the promise of a caller of the store when the store call
\* resolved (ok) or rejected: addMedia, loadPersistedMedia and clearAllMedia
\* await it inside try/catch, removeMedia and the module-level init() attach
\* .catch, so the rejection never leaves the caller.
HookPromise(caller, ok) == "fulfilled"

\* A state update reaches the hook only while it is mounted.
SetState(current, next) == IF mountState = "mounted" THEN next ELSE current


\* ---------------------------------------------------- useFruitDetection

\* const { processingInterval = 500 } = options
ProcessingInterval == 500

\* Date.now() when the page is loaded, in ms.
StartTime == 1000

\* The time that passes between two observations of the hook, in ms.
TimeSteps == {250, 251}

DetectionStatus == {"idle", "processing", "success", "error"}

\* error === null, detectionResults === null
NoError == "null"
NoResults == 0

NotInitializedMessage == "Detector not initialized. Please provide an API key."
InitFailedMessage == "Failed to initialize Gemini API"
DetectionFailedMessage == "Detection failed"

\* The hook after its first render: useState and useRef initial values; no
\* apiKey option is passed, so nothing is initialized.
InitialDetection ==
    [detector |-> "none",            \* detectorRef.current: "none" for null, "notReady", "ready"
     isDetectorReady |-> FALSE,
     lastProcessingTime |-> 0,       \* lastProcessingTimeRef.current
     status |-> "idle",
     error |-> NoError,
     detectionResults |-> NoResults, \* the number of the request whose results are shown
     time |-> StartTime,             \* Date.now()
     calls |-> <<>>,                 \* history: the time of every call that reached the detector
     inflight |-> {},                \* the requests the detector has not answered
     responded |-> {},               \* history: the requests the detector has answered
     cleared |-> FALSE,              \* history: clearResults ran and detectFruits was not called since
     nInits |-> 0,
     nClearResults |-> 0]

\* FruitDetector.isReady(), and the hook's `!detectorRef.current || !detectorRef.current.isReady()`.
IsReady(detector) == detector = "ready"

\* A variant of ShouldProcessFrame with >= for >.
ShouldProcessFrame_AtInterval(now, lastProcessingTime) ==
    now - lastProcessingTime >= ProcessingInterval

\* shouldProcessFrame: now - lastProcessingTimeRef.current > processingInterval
ShouldProcessFrame(now, lastProcessingTime) ==
    now - lastProcessingTime > ProcessingInterval

\* A variant of NotReadyUpdate that also takes the throttle window.
NotReadyUpdate_TakesWindow(d) ==
    [d EXCEPT !.error = NotInitializedMessage, !.status = "error",
              !.lastProcessingTime = d.time]

\* detectFruits without a ready detector: setError(...); setStatus('error'); return
NotReadyUpdate(d) ==
    [d EXCEPT !.error = NotInitializedMessage, !.status = "error"]

\* detectFruits past the throttle: the ref is updated by shouldProcessFrame,
\* setStatus('processing'); setError(null); the detector is called.
StartDetection(d) ==
    [d EXCEPT !.lastProcessingTime = d.time,
              !.status = "processing",
              !.error = NoError,
              !.calls = Append(d.calls, d.time),
              !.inflight = d.inflight \cup {Len(d.calls) + 1}]

\* detectFruits(base64Image), as far as its first await.
DetectFruitsCall(d) ==
    IF ~IsReady(d.detector) THEN NotReadyUpdate(d)
    ELSE IF ShouldProcessFrame(d.time, d.lastProcessingTime) THEN StartDetection(d)
    ELSE d

\* detectFruits after the detector answered request n: the try branch
\* (results) or the catch branch.
DetectionSettled(d, n, ok) ==
    IF ok
    THEN [d EXCEPT !.detectionResults = n, !.status = "success"]
    ELSE [d EXCEPT !.error = DetectionFailedMessage, !.status = "error",
                   !.detectionResults = NoResults]

\* clearResults
ClearedResults(d) ==
    [d EXCEPT !.detectionResults = NoResults, !.status = "idle", !.error = NoError]

\* initializeDetector(newApiKey): the constructor returns a detector that is
\* ready (a key was given) or not (no key), or throws.
InitializedDetector(d, outcome) ==
    IF outcome = "throws"
    THEN [d EXCEPT !.error = InitFailedMessage, !.status = "error", !.isDetectorReady = FALSE]
    ELSE [d EXCEPT !.detector = outcome, !.isDetectorReady = IsReady(outcome),
                   !.error = NoError, !.status = "idle"]

\* The hook's return value: isProcessing: status === 'processing'
IsProcessing(d) == d.status = "processing"

\* ------------------------------------------------------------- initially

\* The records a previous visit may have left in the store: ids 1..MaxStored,
\* timestamps from the same range (equal timestamps included), independent of
\* the ids.
OldRecord(id, timestamp) ==
    [id |-> id, type |-> IF id % 2 = 1 THEN "photo" ELSE "video", blob |-> id,
     timestamp |-> timestamp,
     filename |-> Filename(IF id % 2 = 1 THEN "photo" ELSE "video", timestamp)]

\* ------------------------------------------------------------------ App

PermissionState == {"loading", "granted", "denied"}

CameraFacing == {"user", "environment"}

\* App before its first render: the useState initial values; the environment
\* (the build setting, the window, the device) is read when it mounts.
InitialApp ==
    [mounted |-> FALSE,
     isLoadingScreenDisabled |-> FALSE,  \* VITE_APP_DISABLE_LOADING_SCREEN === 'true'
     isInIframe |-> FALSE,
     isMobileUserAgent |-> FALSE,
     isMobileScreen |-> FALSE,
     cameraFacing |-> "environment",
     permissionState |-> "loading",
     initialPermissionChecked |-> FALSE,
     checking |-> FALSE,             \* checkInitialPermissions is in flight
     requesting |-> FALSE,           \* requestPermissions is in flight
     facingEffectPending |-> FALSE,  \* the camera facing effect is to run
     toggled |-> FALSE,              \* history: toggleCameraFacing ran and no resize since
     nToggles |-> 0, nResizes |-> 0, nTries |-> 0]

\* shouldUseFrontCamera
ShouldUseFrontCamera(isMobileUserAgent, isMobileScreen) == ~isMobileUserAgent /\ isMobileScreen

\* initialCameraFacing, and newCameraFacing of the facing effect
FacingFor(front) == IF front THEN "user" ELSE "environment"

\* toggleCameraFacing's updater: prev === 'user' ? 'environment' : 'user'
Toggled(prev) == IF prev = "user" THEN "environment" ELSE "user"

\* The camera facing effect: cameraFacing after it ran.
FacingAfterEffect(a) ==
    IF ~a.isInIframe THEN a.cameraFacing
    ELSE FacingFor(ShouldUseFrontCamera(a.isMobileUserAgent, a.isMobileScreen))

\* A variant of Screen whose first test leaves out `&& !isLoadingScreenDisabled`.
Screen_AlwaysGated(a) ==
    IF ~a.initialPermissionChecked \/ a.permissionState = "loading" THEN "loading"
    ELSE IF a.permissionState = "denied" THEN "denied"
    ELSE "main"

\* What App renders: the LoadingScreen, the denial screen or the main
\* camera/gallery interface.
Screen(a) ==
    IF (~a.initialPermissionChecked \/ a.permissionState = "loading")
       /\ ~a.isLoadingScreenDisabled
    THEN "loading"
    ELSE IF a.permissionState = "denied" THEN "denied"
    ELSE "main"

\* The requestPermissions effect runs its body: the loading screen is
\* disabled, permissionState is 'loading' and the initial check is done.
StartsRequest(a) ==
    a.isLoadingScreenDisabled /\ a.permissionState = "loading" /\ a.initialPermissionChecked

OldStores ==
    {st \in SUBSET {OldRecord(id, t) : id \in 1..MaxStored, t \in 1..MaxStored} :
        \A r1, r2 \in st : r1.id = r2.id => r1 = r2}

\* The page has loaded the module: `new MediaDatabase()` left db null and the
\* module-level mediaDatabase.init() has made its open request; React has not
\* yet run the hook's effects.
Init ==
    /\ db = FALSE
    /\ openConns = 0
    /\ openQ = <<InitRequest>>
    /\ txQ = <<>>
    /\ store \in OldStores
    /\ capturedMedia = <<>>
    /\ isLoading = TRUE
    /\ mountState = "loaded"
    /\ revokes = <<>>
    /\ clock = MaxStored
    /\ nAdds = 0
    /\ nClears = 0
    /\ nReloads = 0
    /\ nFailures = 0
    /\ session = 0
    /\ putFailed = {}
    /\ unhandled = FALSE
    /\ clearedBelow = 0
    /\ ev = Event("load", TRUE, 0)
    /\ nCloses = 0
    /\ sinceClose = {}
    /\ emptyRevokes = {}
    /\ detection = InitialDetection
    /\ app = InitialApp

\* ------------------------------------------------------- hook operations

\* The camera mode of the capture made at `now`: photos and videos alternate.
CaptureMode(now) == IF now % 2 = 1 THEN "photo" ELSE "video"

\* The first effect of the hook: loadPersistedMedia() calls getAllMedia().
Mount ==
    /\ mountState = "loaded"
    /\ mountState' = "mounted"
    /\ EnsureDB(Request("getAll", NoMedia, 0, <<>>, clock))
    /\ sinceClose' = Called("getAll")
    /\ ev' = Event("mount", TRUE, 0)
    /\ UNCHANGED <<db, openConns, store, capturedMedia, isLoading, revokes, clock,
                   nAdds, nClears, nReloads, nFailures, session, putFailed, unhandled,
                   clearedBelow, nCloses, emptyRevokes,
                   detection, app>>

\* addMedia(media): calls storeMedia and awaits it before it touches capturedMedia.
AddMediaCall(media) ==
    /\ mountState = "mounted"
    /\ nAdds < MaxAdds
    /\ nAdds' = nAdds + 1
    /\ EnsureDB(Request("put", media, media.id, <<>>, clock'))
    /\ sinceClose' = Called("put")
    /\ ev' = Event("addMedia", TRUE, media.id)
    /\ UNCHANGED <<db, openConns, store, capturedMedia, isLoading, mountState,
                   nClears, nReloads, nFailures, session, putFailed, unhandled,
                   clearedBelow, nCloses, emptyRevokes,
                   detection, app>>

\* A capture: createMediaFromBlob(blob, type), with URL.createObjectURL
\* returning a url (created) or throwing, and addMedia(media).
Capture(created) ==
    LET now == clock + 1
        url == IF created THEN CreateObjectURL(revokes) ELSE EmptyUrl
    IN /\ clock' = now
       /\ revokes' = IF created THEN Append(revokes, <<>>) ELSE revokes
       /\ AddMediaCall(CreateMediaFromBlob(now, CaptureMode(now), now, url))

AddMedia == Capture(TRUE)

\* A capture whose URL.createObjectURL throws: the record gets the url ''.
AddMediaNoUrl == Capture(FALSE)

\* The blob of a record that was given to addMedia before and is given again
\* with its content replaced.
ReplacedBlob == 0

\* addMedia called again for a record it was given before (one whose put is
\* pending or whose handle is in the Collection), unchanged or with its blob
\* replaced: nothing in addMedia looks at what it was given before.
AddMediaAgain ==
    /\ UNCHANGED <<clock, revokes>>
    /\ \E media \in {r.media : r \in PendingPuts} \cup Range(capturedMedia) :
          \E blob \in {media.blob, ReplacedBlob} :
             AddMediaCall([media EXCEPT !.blob = blob])

\* removeMedia(id) for an id of the Collection: the updater revokes the url of
\* the first handle found, calls deleteMedia when that handle has an
\* indexedDbId, and filters every handle of that id out.
RemoveMedia ==
    /\ mountState = "mounted"
    /\ \E id \in CollectionIds :
          LET mediaToRemove == capturedMedia[FindMedia(capturedMedia, id)]
          IN /\ revokes' = RevokeEach(<<mediaToRemove>>, revokes, "removeMedia")
             /\ emptyRevokes' = IF RevokesEmptyUrl(<<mediaToRemove>>)
                                THEN emptyRevokes \cup {"removeMedia"}
                                ELSE emptyRevokes
             /\ IF HasStoreMirror(mediaToRemove)
                THEN /\ EnsureDB(Request("delete", NoMedia, mediaToRemove.indexedDbId, <<>>, clock))
                     /\ sinceClose' = Called("delete")
                ELSE UNCHANGED <<openQ, txQ, sinceClose>>
             /\ capturedMedia' = FilterOut(capturedMedia, id)
             /\ ev' = Event("removeMedia", TRUE, id)
    /\ UNCHANGED <<db, openConns, store, isLoading, mountState, clock,
                   nAdds, nClears, nReloads, nFailures, session, putFailed, unhandled,
                   clearedBelow, nCloses,
                   detection, app>>

\* clearAllMedia(): the callback of the current render, which closes over that
\* render's capturedMedia, calls mediaDatabase.clearAllMedia() and awaits it.
ClearAllMedia ==
    /\ mountState = "mounted"
    /\ nClears < MaxClears
    /\ nClears' = nClears + 1
    /\ EnsureDB(Request("clear", NoMedia, 0, capturedMedia, clock + 1))
    /\ sinceClose' = Called("clear")
    /\ ev' = Event("clearAllMedia", TRUE, 0)
    /\ UNCHANGED <<db, openConns, store, capturedMedia, isLoading, mountState, revokes,
                   clock, nAdds, nReloads, nFailures, session, putFailed, unhandled,
                   clearedBelow, nCloses, emptyRevokes,
                   detection, app>>

\* The hook unmounts: the cleanup of the second effect runs over the
\* capturedMedia it closed over.
Unmount ==
    /\ mountState = "mounted"
    /\ mountState' = "unmounted"
    /\ revokes' = RevokeEach(UnmountClosure, revokes, "unmount")
    /\ emptyRevokes' = IF RevokesEmptyUrl(UnmountClosure)
                       THEN emptyRevokes \cup {"unmount"}
                       ELSE emptyRevokes
    /\ ev' = Event("unmount", TRUE, 0)
    /\ UNCHANGED <<db, openConns, openQ, txQ, store, capturedMedia, isLoading, clock,
                   nAdds, nClears, nReloads, nFailures, session, putFailed, unhandled,
                   clearedBelow, nCloses, sinceClose,
                   detection, app>>

\* The page is reloaded: the document, its connections, its object URLs and
\* everything in flight go; the store stays; the module is loaded again.
Reload ==
    /\ nReloads < MaxReloads
    /\ nReloads' = nReloads + 1
    /\ session' = session + 1
    /\ db' = FALSE
    /\ openConns' = 0
    /\ openQ' = <<InitRequest>>
    /\ txQ' = <<>>
    /\ capturedMedia' = <<>>
    /\ isLoading' = TRUE
    /\ mountState' = "loaded"
    /\ revokes' = <<>>
    /\ sinceClose' = {}
    /\ detection' = [InitialDetection EXCEPT !.time = detection.time]
    /\ app' = InitialApp
    /\ ev' = Event("load", TRUE, 0)
    /\ UNCHANGED <<store, clock, nAdds, nClears, nFailures, putFailed, unhandled,
                   clearedBelow, nCloses, emptyRevokes>>

\* mediaDatabase.close(): closes the connection it holds and forgets it;
\* nothing to do when it holds none. The transactions already created on the
\* connection run to completion.
Close ==
    /\ nCloses < MaxCloses
    /\ nCloses' = nCloses + 1
    /\ IF db
       THEN /\ db' = DbAfterClose(db)
            /\ openConns' = openConns - 1
            /\ sinceClose' = {"close"}
       ELSE UNCHANGED <<db, openConns, sinceClose>>
    /\ ev' = Event("close", TRUE, 0)
    /\ UNCHANGED <<openQ, txQ, store, capturedMedia, isLoading, mountState, revokes,
                   clock, nAdds, nClears, nReloads, nFailures, session, putFailed,
                   unhandled, clearedBelow, emptyRevokes,
                   detection, app>>

\* -------------------------------------------- detection hook operations

\* Everything but the detection hook and the last handler.
mediaVars == <<db, openConns, openQ, txQ, store, capturedMedia, isLoading, mountState,
               revokes, clock, nAdds, nClears, nReloads, nFailures, session, putFailed,
               unhandled, clearedBelow, nCloses, sinceClose, emptyRevokes>>

\* Time passes.
Tick ==
    /\ \E dt \in TimeSteps :
          /\ detection.time + dt <= MaxTime
          /\ detection' = [detection EXCEPT !.time = detection.time + dt]
    /\ ev' = Event("tick", TRUE, 0)
    /\ UNCHANGED <<mediaVars, app>>

\* initializeDetector(newApiKey)
InitializeDetector ==
    /\ detection.nInits < MaxInits
    /\ \E outcome \in {"ready", "notReady", "throws"} :
          /\ detection' = [InitializedDetector(detection, outcome)
                              EXCEPT !.nInits = detection.nInits + 1]
          /\ ev' = Event("initializeDetector", outcome # "throws", 0)
    /\ UNCHANGED <<mediaVars, app>>

\* detectFruits(base64Image) is called: it returns at once (no ready
\* detector, or throttled) or calls the detector and awaits its answer. The
\* event tells which: "detectFruits" with the number of the request made,
\* "detectFruits.notReady" or "detectFruits.throttled".
DetectFruits ==
    /\ Len(detection.calls) < MaxDetections
    /\ detection' = [DetectFruitsCall(detection) EXCEPT !.cleared = FALSE]
    /\ ev' = IF ~IsReady(detection.detector) THEN Event("detectFruits.notReady", FALSE, 0)
             ELSE IF Len(detection'.calls) > Len(detection.calls)
                  THEN Event("detectFruits", TRUE, Len(detection'.calls))
                  ELSE Event("detectFruits.throttled", TRUE, 0)
    /\ UNCHANGED <<mediaVars, app>>

\* The detector answers a request, with results or with an error; the
\* answers come in any order.
DetectorResponds ==
    /\ \E n \in detection.inflight, ok \in BOOLEAN :
          /\ detection' = [DetectionSettled(detection, n, ok)
                              EXCEPT !.inflight = detection.inflight \ {n},
                                     !.responded = detection.responded \cup {n}]
          /\ ev' = Event("detectFruits.done", ok, n)
    /\ UNCHANGED <<mediaVars, app>>

\* clearResults(), which the detection loop calls when detection is switched off.
ClearResults ==
    /\ detection.nClearResults < MaxClearResults
    /\ detection' = [ClearedResults(detection)
                        EXCEPT !.cleared = TRUE,
                               !.nClearResults = detection.nClearResults + 1]
    /\ ev' = Event("clearResults", TRUE, 0)
    /\ UNCHANGED <<mediaVars, app>>

\* --------------------------------------------------------- App operations

\* Everything but App and the last handler.
nonAppVars == <<mediaVars, detection>>

\* App mounts: the first render with the useState initial values, then the
\* effects of the first commit: setIsInIframe(window.self !== window.top)
\* and checkInitialPermissions().
AppMount ==
    /\ ~app.mounted
    /\ \E disabled, inIframe, userAgent, screen \in BOOLEAN :
          app' = [app EXCEPT !.mounted = TRUE,
                             !.isLoadingScreenDisabled = disabled,
                             !.isInIframe = inIframe,
                             !.isMobileUserAgent = userAgent,
                             !.isMobileScreen = screen,
                             !.cameraFacing = FacingFor(FALSE),
                             !.checking = TRUE,
                             !.facingEffectPending = inIframe]
    /\ ev' = Event("appMount", TRUE, 0)
    /\ UNCHANGED nonAppVars

\* checkInitialPermissions settles: the permission query (or the getUserMedia
\* test) said granted or denied, or it said 'prompt' or failed ("loading");
\* `finally` sets initialPermissionChecked.
CheckSettles ==
    /\ app.checking
    /\ \E outcome \in PermissionState :
          LET next == [app EXCEPT !.permissionState = outcome,
                                  !.initialPermissionChecked = TRUE,
                                  !.checking = FALSE]
          IN app' = [next EXCEPT !.requesting = app.requesting \/ StartsRequest(next)]
    /\ ev' = Event("checkInitialPermissions", TRUE, 0)
    /\ UNCHANGED nonAppVars

\* requestPermissions settles: getUserMedia resolved (handlePermissionGranted)
\* or rejected (handlePermissionDenied).
RequestSettles ==
    /\ app.requesting
    /\ \E granted \in BOOLEAN :
          app' = [app EXCEPT !.permissionState = IF granted THEN "granted" ELSE "denied",
                             !.requesting = FALSE]
    /\ ev' = Event("requestPermissions", TRUE, 0)
    /\ UNCHANGED nonAppVars

\* The LoadingScreen, while it is rendered, calls onPermissionGranted or
\* onPermissionDenied.
LoadingScreenAnswers ==
    /\ app.mounted /\ Screen(app) = "loading"
    /\ \E granted \in BOOLEAN :
          app' = [app EXCEPT !.permissionState = IF granted THEN "granted" ELSE "denied"]
    /\ ev' = Event("loadingScreen", TRUE, 0)
    /\ UNCHANGED nonAppVars

\* The 'Try Again' button of the denial screen: setPermissionState('loading').
TryAgain ==
    /\ app.mounted /\ Screen(app) = "denied"
    /\ app.nTries < MaxTries
    /\ LET next == [app EXCEPT !.permissionState = "loading", !.nTries = app.nTries + 1]
       IN app' = [next EXCEPT !.requesting = app.requesting \/ StartsRequest(next)]
    /\ ev' = Event("tryAgain", TRUE, 0)
    /\ UNCHANGED nonAppVars

\* toggleCameraFacing, from the main interface; the effects of the previous
\* commit have run.
ToggleCameraFacing ==
    /\ app.mounted /\ Screen(app) = "main" /\ ~app.facingEffectPending
    /\ app.nToggles < MaxToggles
    /\ app' = [app EXCEPT !.cameraFacing = Toggled(app.cameraFacing),
                          !.facingEffectPending = TRUE,
                          !.toggled = TRUE,
                          !.nToggles = app.nToggles + 1]
    /\ ev' = Event("toggleCameraFacing", TRUE, 0)
    /\ UNCHANGED nonAppVars

\* The screen size class changes (useMobileDetection): isMobileScreen flips.
Resize ==
    /\ app.mounted /\ ~app.facingEffectPending
    /\ app.nResizes < MaxResizes
    /\ app' = [app EXCEPT !.isMobileScreen = ~app.isMobileScreen,
                          !.facingEffectPending = TRUE,
                          !.toggled = FALSE,
                          !.nResizes = app.nResizes + 1]
    /\ ev' = Event("resize", TRUE, 0)
    /\ UNCHANGED nonAppVars

\* The camera facing effect runs after a commit that changed one of its
\* dependencies; when it sets cameraFacing it is to run once more.
FacingEffect ==
    /\ app.facingEffectPending
    /\ app' = [app EXCEPT !.cameraFacing = FacingAfterEffect(app),
                          !.facingEffectPending = (FacingAfterEffect(app) # app.cameraFacing)]
    /\ ev' = Event("facingEffect", FacingAfterEffect(app) = app.cameraFacing, 0)
    /\ UNCHANGED nonAppVars

\* ------------------------------------------- continuations of store calls

\* addMedia resumes after `await mediaDatabase.storeMedia(storedData)`.
AddMediaSettled(req, ok) ==
    /\ capturedMedia' =
          SetState(capturedMedia,
                   IF ok THEN AddMediaResolved(req.media, req.media.id, capturedMedia)
                         ELSE AddMediaRejected(req.media, capturedMedia))
    /\ putFailed' = IF ok THEN putFailed ELSE putFailed \cup {<<req.media.id, session>>}
    /\ unhandled' = (unhandled \/ HookPromise("addMedia", ok) = "rejected")
    /\ ev' = Event("storeMedia", ok, req.media.id)
    /\ UNCHANGED <<isLoading, revokes, clearedBelow, emptyRevokes>>

\* loadPersistedMedia resumes after `await mediaDatabase.getAllMedia()`:
\* with the array it resolved to, or in the catch; `finally` clears isLoading.
LoadPersistedMediaSettled(ok, storedMedia) ==
    /\ capturedMedia' =
          IF ok THEN SetState(capturedMedia, LoadPersistedMedia(storedMedia, revokes, capturedMedia))
                ELSE capturedMedia
    /\ revokes' = IF ok THEN RestoreUrls(storedMedia, revokes) ELSE revokes
    /\ isLoading' = SetState(isLoading, IsLoadingAfterRestore(ok))
    /\ unhandled' = (unhandled \/ HookPromise("loadPersistedMedia", ok) = "rejected")
    /\ ev' = Event("getAllMedia", ok, 0)
    /\ UNCHANGED <<putFailed, clearedBelow, emptyRevokes>>

\* removeMedia does not wait for deleteMedia; a rejection is logged.
DeleteMediaSettled(req, ok) ==
    /\ unhandled' = (unhandled \/ HookPromise("deleteMedia", ok) = "rejected")
    /\ ev' = Event("deleteMedia", ok, req.id)
    /\ UNCHANGED <<capturedMedia, isLoading, revokes, putFailed, clearedBelow, emptyRevokes>>

\* clearAllMedia resumes after the try/catch around the store's clearAllMedia.
ClearAllMediaSettled(req, ok) ==
    /\ revokes' = RevokeEach(req.snap, revokes, "clearAllMedia")
    /\ emptyRevokes' = IF RevokesEmptyUrl(req.snap)
                       THEN emptyRevokes \cup {"clearAllMedia"}
                       ELSE emptyRevokes
    /\ capturedMedia' = SetState(capturedMedia, ClearAllMediaAfter(ok, capturedMedia))
    /\ unhandled' = (unhandled \/ HookPromise("clearAllMedia", ok) = "rejected")
    /\ clearedBelow' = IF ok /\ req.issuedAt > clearedBelow THEN req.issuedAt ELSE clearedBelow
    /\ ev' = Event("clearAllMedia.done", ok, 0)
    /\ UNCHANGED <<isLoading, putFailed>>

\* The module-level init(): a failure is logged.
InitSettled(ok) ==
    /\ unhandled' = (unhandled \/ HookPromise("init", ok) = "rejected")
    /\ ev' = Event("init", ok, 0)
    /\ UNCHANGED <<capturedMedia, isLoading, revokes, putFailed, clearedBelow, emptyRevokes>>

\* ------------------------------------------------------ IndexedDB events

\* request.onsuccess of the oldest open request: this.db = request.result;
\* the waiting operation, if any, creates its transaction.
OpenSucceeds ==
    /\ openQ # <<>>
    /\ db' = TRUE
    /\ openConns' = openConns + 1
    /\ openQ' = Tail(openQ)
    /\ IF Head(openQ).kind = "init"
       THEN /\ txQ' = txQ
            /\ InitSettled(TRUE)
       ELSE /\ txQ' = Append(txQ, Head(openQ))
            /\ ev' = Event("ensureDB", TRUE, 0)
            /\ UNCHANGED <<capturedMedia, isLoading, revokes, putFailed, unhandled,
                           clearedBelow, emptyRevokes>>
    /\ UNCHANGED <<store, mountState, clock, nAdds, nClears, nReloads, nFailures,
                   session, nCloses, sinceClose,
                   detection, app>>

\* request.onerror of the oldest open request: init() rejects, and with it
\* the operation that was waiting in ensureDB.
OpenFails ==
    /\ openQ # <<>>
    /\ nFailures < MaxFailures
    /\ nFailures' = nFailures + 1
    /\ openQ' = Tail(openQ)
    /\ LET req == Head(openQ)
       IN CASE req.kind = "init" -> InitSettled(FALSE)
            [] req.kind = "put" -> AddMediaSettled(req, FALSE)
            [] req.kind = "getAll" -> LoadPersistedMediaSettled(FALSE, <<>>)
            [] req.kind = "delete" -> DeleteMediaSettled(req, FALSE)
            [] req.kind = "clear" -> ClearAllMediaSettled(req, FALSE)
    /\ UNCHANGED <<db, openConns, txQ, store, mountState, clock, nAdds, nClears,
                   nReloads, session, nCloses, sinceClose,
                   detection, app>>

\* storeMedia: store.put succeeded.
PutSucceeds ==
    /\ txQ # <<>> /\ Head(txQ).kind = "put"
    /\ txQ' = Tail(txQ)
    /\ store' = StorePut(store, StoredData(Head(txQ).media))
    /\ AddMediaSettled(Head(txQ), TRUE)
    /\ UNCHANGED <<db, openConns, openQ, mountState, clock, nAdds, nClears, nReloads,
                   nFailures, session, nCloses, sinceClose,
                   detection, app>>

\* storeMedia: request.onsuccess of store.put fires, which resolves the
\* promise, and the transaction then aborts; storeMedia listens to neither
\* transaction.oncomplete nor transaction.onabort.
PutAborts ==
    /\ txQ # <<>> /\ Head(txQ).kind = "put"
    /\ nFailures < MaxFailures
    /\ nFailures' = nFailures + 1
    /\ txQ' = Tail(txQ)
    /\ store' = StoreAfterAbort(store, StoredData(Head(txQ).media))
    /\ AddMediaSettled(Head(txQ), TRUE)
    /\ UNCHANGED <<db, openConns, openQ, mountState, clock, nAdds, nClears, nReloads,
                   session, nCloses, sinceClose,
                   detection, app>>

\* getAllMedia: store.getAll succeeded.
GetAllSucceeds ==
    /\ txQ # <<>> /\ Head(txQ).kind = "getAll"
    /\ txQ' = Tail(txQ)
    /\ \E storedMedia \in GetAllResults(store) : LoadPersistedMediaSettled(TRUE, storedMedia)
    /\ UNCHANGED <<db, openConns, openQ, store, mountState, clock, nAdds, nClears,
                   nReloads, nFailures, session, nCloses, sinceClose,
                   detection, app>>

\* deleteMedia: store.delete succeeded.
DeleteSucceeds ==
    /\ txQ # <<>> /\ Head(txQ).kind = "delete"
    /\ txQ' = Tail(txQ)
    /\ store' = StoreDelete(store, Head(txQ).id)
    /\ DeleteMediaSettled(Head(txQ), TRUE)
    /\ UNCHANGED <<db, openConns, openQ, mountState, clock, nAdds, nClears, nReloads,
                   nFailures, session, nCloses, sinceClose,
                   detection, app>>

\* MediaDatabase.clearAllMedia: store.clear succeeded.
ClearSucceeds ==
    /\ txQ # <<>> /\ Head(txQ).kind = "clear"
    /\ txQ' = Tail(txQ)
    /\ store' = StoreClear(store)
    /\ ClearAllMediaSettled(Head(txQ), TRUE)
    /\ UNCHANGED <<db, openConns, openQ, mountState, clock, nAdds, nClears, nReloads,
                   nFailures, session, nCloses, sinceClose,
                   detection, app>>

\* request.onerror of the oldest transaction's request: the store is unchanged
\* and the operation's promise rejects.
RequestFails ==
    /\ txQ # <<>>
    /\ nFailures < MaxFailures
    /\ nFailures' = nFailures + 1
    /\ txQ' = Tail(txQ) \o (IF Head(txQ).kind = "put" THEN CatchStoreCalls(Head(txQ)) ELSE <<>>)
    /\ LET req == Head(txQ)
       IN CASE req.kind = "put" -> AddMediaSettled(req, FALSE)
            [] req.kind = "getAll" -> LoadPersistedMediaSettled(FALSE, <<>>)
            [] req.kind = "delete" -> DeleteMediaSettled(req, FALSE)
            [] req.kind = "clear" -> ClearAllMediaSettled(req, FALSE)
    /\ UNCHANGED <<db, openConns, openQ, store, mountState, clock, nAdds, nClears,
                   nReloads, session, nCloses, sinceClose,
                   detection, app>>

StoreStep ==
    \/ OpenSucceeds
    \/ OpenFails
    \/ PutSucceeds
    \/ GetAllSucceeds
    \/ DeleteSucceeds
    \/ ClearSucceeds
    \/ RequestFails

Next ==
    \/ Mount
    \/ AddMedia
    \/ RemoveMedia
    \/ ClearAllMedia
    \/ Unmount
    \/ Reload
    \/ StoreStep

Spec == Init /\ [][Next]_vars

\* Every request the browser has accepted is answered: an open request or a
\* transaction at the head of its queue does not wait for ever.
Settle ==
    \/ OpenSucceeds
    \/ OpenFails
    \/ PutSucceeds
    \/ GetAllSucceeds
    \/ RequestFails

\* The page load: mount, the restore, and the captures made while isLoading
\* is still up (nothing gates addMedia on the flag), with the store answering
\* every request.
LoadNext ==
    \/ Mount
    \/ (isLoading /\ AddMedia)
    \/ Settle

FairSpec == Init /\ [][LoadNext]_vars /\ WF_vars(Settle)

\* No operation of the hook is in flight.
Quiescent == InFlight = 0

\* The hook used one operation at a time, the store never failing: a capture,
\* a removal or a reload is issued only when every earlier operation has
\* completed.
SeqNext ==
    \/ Mount
    \/ (Quiescent /\ AddMedia)
    \/ (Quiescent /\ RemoveMedia)
    \/ (Quiescent /\ mountState = "mounted" /\ Reload)
    \/ OpenSucceeds
    \/ PutSucceeds
    \/ GetAllSucceeds
    \/ DeleteSucceeds

SeqSpec == Init /\ [][SeqNext]_vars

\* The hook given the same record more than once, the store never failing.
DupNext ==
    \/ Mount
    \/ AddMedia
    \/ AddMediaAgain
    \/ OpenSucceeds
    \/ PutSucceeds
    \/ GetAllSucceeds

DupSpec == Init /\ [][DupNext]_vars

\* The hook with captures whose object URL cannot be created, the store
\* never failing.
UrlNext ==
    \/ Mount
    \/ AddMedia
    \/ AddMediaNoUrl
    \/ RemoveMedia
    \/ ClearAllMedia
    \/ Unmount
    \/ OpenSucceeds
    \/ PutSucceeds
    \/ GetAllSucceeds
    \/ DeleteSucceeds
    \/ ClearSucceeds

UrlSpec == Init /\ [][UrlNext]_vars

\* The hook's captures with write transactions that may abort after their
\* put request succeeded.
AbortNext ==
    \/ Mount
    \/ AddMedia
    \/ OpenSucceeds
    \/ PutSucceeds
    \/ PutAborts
    \/ GetAllSucceeds

AbortSpec == Init /\ [][AbortNext]_vars

\* App on its own: the permission gate and the camera facing.
AppNext ==
    \/ AppMount
    \/ CheckSettles
    \/ RequestSettles
    \/ LoadingScreenAnswers
    \/ TryAgain
    \/ ToggleCameraFacing
    \/ Resize
    \/ FacingEffect

AppSpec == Init /\ [][AppNext]_vars

\* The detection hook on its own.
DetectNext ==
    \/ Tick
    \/ InitializeDetector
    \/ DetectFruits
    \/ DetectorResponds
    \/ ClearResults

DetectSpec == Init /\ [][DetectNext]_vars

\* The hook's operations with close() called at any moment, the store never
\* failing.
CloseNext ==
    \/ Mount
    \/ AddMedia
    \/ RemoveMedia
    \/ ClearAllMedia
    \/ Close
    \/ OpenSucceeds
    \/ PutSucceeds
    \/ GetAllSucceeds
    \/ DeleteSucceeds
    \/ ClearSucceeds

CloseSpec == Init /\ [][CloseNext]_vars


\* ================================================================ claims

Mounted == mountState = "mounted"

Callers(url) == Range(revokes[url])

C2_FailedPutStaysInMemoryOnly ==
    /\ (ev.op = "storeMedia" /\ ~ev.ok /\ Mounted) =>
          /\ capturedMedia # <<>>
          /\ Head(capturedMedia).id = ev.id
          /\ Head(capturedMedia).indexedDbId = NoIndexedDbId
    /\ \A f \in putFailed :
          /\ f[1] \notin StoreIds
          /\ f[2] < session => f[1] \notin CollectionIds

\* After a put failed and the page was reloaded, the restore has rebuilt a
\* non-empty Collection.
C2_Witness ==
    /\ \E f \in putFailed : f[2] < session
    /\ ev.op = "getAllMedia" /\ ev.ok /\ Mounted
    /\ capturedMedia # <<>>

\* ---------------------------------------------------------------- C3
\* C3 as stated: after removeMedia(id) the Collection holds no handle of that
\* id, and the object URL removeMedia released has been revoked exactly once,
\* whatever else runs (a pending clearAllMedia included).
C3_RemovedAndRevokedOnce ==
    /\ ev.op = "removeMedia" => ev.id \notin CollectionIds
    /\ \A u \in DOMAIN revokes :
          "removeMedia" \in Callers(u) => Len(revokes[u]) = 1

\* ---------------------------------------------------------------- C4
\* C4 as stated: when clearAllMedia finishes, the store's clear() resolved or
\* rejected, the Collection is empty and every handle that was in the
\* Collection when it was emptied has a revoked object URL.
C4_ClearRevokesEveryHandle ==
    [][(ev'.op = "clearAllMedia.done" /\ Mounted) =>
          /\ capturedMedia' = <<>>
          /\ \A i \in 1..Len(capturedMedia) :
                capturedMedia[i].url # EmptyUrl => Len(revokes'[capturedMedia[i].url]) > 0]_vars

\* ---------------------------------------------------------------- C5
\* C5 as stated: when clearAllMedia finishes after a successful clear(), the
\* Collection and the store are empty, and no record whose addMedia was
\* issued before that clearAllMedia is in the store afterwards, so that a
\* restore cannot bring it back.
C5_ClearEmptiesBoth ==
    /\ (ev.op = "clearAllMedia.done" /\ ev.ok) =>
          /\ Mounted => capturedMedia = <<>>
          /\ store = {}
    /\ \A r \in store : r.id >= clearedBelow


\* ---------------------------------------------------------------- C6
DistinctTimestamps(st) == \A r1, r2 \in st : r1.timestamp = r2.timestamp => r1 = r2

\* The Collection holds one handle per record of st, with the record's id,
\* type, timestamp and filename, newest first with no two timestamps equal.
RestoredExactly(list, st) ==
    /\ Len(list) = Cardinality(st)
    /\ \A r \in st : \E i \in 1..Len(list) :
          /\ list[i].id = r.id
          /\ list[i].type = r.type
          /\ list[i].timestamp = r.timestamp
          /\ list[i].filename = r.filename
    /\ \A i, j \in 1..Len(list) : i < j => list[i].timestamp > list[j].timestamp

C7_StoreMirrorsCollection ==
    /\ ev.op = "storeMedia" =>
          /\ Head(capturedMedia).id = ev.id
          /\ ev.id \in StoreIds
    /\ ev.op = "removeMedia" => ev.id \notin CollectionIds
    /\ ev.op = "deleteMedia" => ev.id \notin StoreIds \cup CollectionIds
    /\ (Mounted /\ ~isLoading /\ Quiescent) => StoreIds = CollectionIds

\* The scenario of the claim, from an empty store: A then B were captured, A
\* was removed, the page was reloaded, and the restore has rebuilt [B].
C7_Witness ==
    /\ session = 1 /\ nAdds = 2
    /\ ev.op = "getAllMedia" /\ Mounted
    /\ [i \in 1..Len(capturedMedia) |-> capturedMedia[i].id] = <<MaxStored + 2>>
    /\ StoreIds = {MaxStored + 2}

\* ---------------------------------------------------------------- C8
\* C8: a failing store call (open, put, delete or clear) aborts nothing: the
\* failed put's record is at the head of the Collection, removeMedia has
\* removed every handle of the id, a clearAllMedia whose clear() failed has
\* emptied the Collection, and no promise has rejected unhandled.
C8_StoreFailureAbortsNothing ==
    /\ (ev.op = "storeMedia" /\ ~ev.ok /\ Mounted) =>
          /\ capturedMedia # <<>>
          /\ Head(capturedMedia).id = ev.id
    /\ ev.op = "removeMedia" => ev.id \notin CollectionIds
    /\ (ev.op = "clearAllMedia.done" /\ Mounted) => capturedMedia = <<>>
    /\ ~unhandled

\* A clearAllMedia whose store clear() failed has just finished.
C8_Witness ==
    /\ ev.op = "clearAllMedia.done" /\ ~ev.ok /\ Mounted
    /\ capturedMedia = <<>>
    /\ nFailures > 0

C10_UnmountRevokesEveryHandle ==
    ev.op = "unmount" =>
        \A i \in 1..Len(capturedMedia) :
            capturedMedia[i].url # EmptyUrl => Revoked(capturedMedia[i].url)

\* --------------------------------------------------------------- C11
\* C11 as stated: at most one IndexedDB connection is open at any time, and
\* every open connection is the one MediaDatabase.db holds.
C11_SingleConnection ==
    /\ openConns <= 1
    /\ openConns = (IF db THEN 1 ELSE 0)

\* --------------------------------------------------------------- C12
\* C12: the store holds at most one entry per id, and a put that succeeds
\* leaves exactly one entry of its id, equal to the record that was put,
\* whether or not an entry of that id (with the same payload or another) was
\* there before; the entries of other ids are as they were.
C12_PutIsUpsert ==
    /\ [](\A r1, r2 \in store : r1.id = r2.id => r1 = r2)
    /\ [][(ev'.op = "storeMedia" /\ ev'.ok) =>
             /\ {r \in store' : r.id = ev'.id} = {StoredData(Head(txQ).media)}
             /\ {r \in store' : r.id # ev'.id} = {r \in store : r.id # ev'.id}]_vars

\* The second put of an id has just succeeded, with a payload other than the
\* first one's: both handles are in the Collection, the store has the one
\* entry, with the payload put last.
C12_Witness ==
    /\ ev.op = "storeMedia" /\ ev.ok
    /\ Len(capturedMedia) >= 2
    /\ capturedMedia[1].id = ev.id /\ capturedMedia[2].id = ev.id
    /\ capturedMedia[1].blob # capturedMedia[2].blob
    /\ {r \in store : r.id = ev.id} = {StoredData(capturedMedia[1])}

\* --------------------------------------------------------------- C13
\* C13: close() releases the connection and changes nothing else, and does
\* nothing at all when no connection is held; the connection MediaDatabase
\* holds is always an open one, so an operation called after close() opens
\* a connection again; every operation called after close() completes as it
\* does without close(): a put leaves its record in the store, getAllMedia
\* returns every entry of the store (those written before close() included),
\* a delete leaves no entry of its id, a clear leaves the store empty.
C13_ReopensAfterClose ==
    /\ [][ev'.op = "close" =>
             /\ ~db'
             /\ UNCHANGED <<openQ, txQ, store, capturedMedia, isLoading, revokes>>
             /\ ~db => UNCHANGED <<openConns, sinceClose>>]_vars
    /\ [](db => openConns >= 1)
    /\ []((ev.op = "storeMedia" /\ "put" \in sinceClose) => (ev.ok /\ ev.id \in StoreIds))
    /\ []((ev.op = "getAllMedia" /\ "getAll" \in sinceClose) =>
             (ev.ok /\ (store # {} => CollectionIds = StoreIds)))
    /\ []((ev.op = "deleteMedia" /\ "delete" \in sinceClose) => (ev.ok /\ ev.id \notin StoreIds))
    /\ []((ev.op = "clearAllMedia.done" /\ "clear" \in sinceClose) => (ev.ok /\ store = {}))

\* close() was called twice after the module-level init() had opened the
\* connection, then the hook mounted: its getAllMedia opened a connection
\* again and has returned the entries an earlier visit had written.
C13_Witness ==
    /\ nCloses = MaxCloses
    /\ ev.op = "getAllMedia" /\ ev.ok /\ Mounted
    /\ "getAll" \in sinceClose
    /\ db /\ openConns = 1
    /\ store # {} /\ CollectionIds = StoreIds

\* --------------------------------------------------------------- C14
\* C14: a put is issued only by an addMedia call, one per call, for the
\* record it was given; when the put of a record fails the record is put at
\* the head of the Collection without an indexedDbId, and from then on no put
\* of its id is in flight, no handle of its id has an indexedDbId and the
\* store has no entry of its id.
C14_OnePutPerAddNoRetry ==
    /\ [][\A id \in 1..clock' :
             PutsPending(openQ', txQ', id) > PutsPending(openQ, txQ, id) =>
                /\ ev'.op = "addMedia" /\ ev'.id = id
                /\ PutsPending(openQ', txQ', id) = PutsPending(openQ, txQ, id) + 1]_vars
    /\ []((ev.op = "storeMedia" /\ ~ev.ok /\ Mounted) =>
             /\ capturedMedia # <<>>
             /\ Head(capturedMedia).id = ev.id
             /\ Head(capturedMedia).indexedDbId = NoIndexedDbId)
    /\ [](\A f \in putFailed :
             /\ PutsPending(openQ, txQ, f[1]) = 0
             /\ f[1] \notin StoreIds
             /\ \A i \in 1..Len(capturedMedia) :
                   capturedMedia[i].id = f[1] => capturedMedia[i].indexedDbId = NoIndexedDbId)

\* The put of a record failed; a later capture has since been stored and
\* stands in front of the memory-only record.
C14_Witness ==
    /\ ev.op = "storeMedia" /\ ev.ok /\ Mounted
    /\ Len(capturedMedia) >= 2
    /\ \E f \in putFailed :
          /\ f[2] = session
          /\ capturedMedia[2].id = f[1]
          /\ capturedMedia[2].indexedDbId = NoIndexedDbId

\* --------------------------------------------------------------- C15
\* C15: a capture always yields a record, which addMedia is given: when the
\* object URL cannot be created the record has the url '' and is otherwise
\* the record of the success case; it is put at the head of the Collection
\* when its put settles, removeMedia removes it, and '' is never passed to
\* URL.revokeObjectURL, by removeMedia, clearAllMedia or the unmount cleanup.
C15_EmptyUrlRecordIsUsable ==
    /\ [][ev'.op = "addMedia" =>
             LET issued == IF Len(txQ') > Len(txQ) THEN txQ'[Len(txQ')] ELSE openQ'[Len(openQ')]
                 success == CreateMediaFromBlob(clock', CaptureMode(clock'), clock',
                                                CreateObjectURL(revokes))
             IN /\ issued.kind = "put"
                /\ issued.media.url \in {EmptyUrl, success.url}
                /\ [issued.media EXCEPT !.url = success.url] = success]_vars
    /\ []((ev.op = "storeMedia" /\ Mounted) =>
             (capturedMedia # <<>> /\ Head(capturedMedia).id = ev.id))
    /\ [](ev.op = "removeMedia" => ev.id \notin CollectionIds)
    /\ [](emptyRevokes = {})

\* removeMedia has just removed a handle and no object URL has been revoked
\* so far: the handle had the url ''.
C15_Witness ==
    /\ ev.op = "removeMedia" /\ Mounted
    /\ ev.id \notin CollectionIds
    /\ \A u \in DOMAIN revokes : revokes[u] = <<>>
    /\ emptyRevokes = {}

\* --------------------------------------------------------------- C16
\* C16 as stated: of two records given to addMedia, the one given later (the
\* greater id: ids are handed out in the order of the calls) stands before
\* the other once both are in the Collection, whatever the order in which
\* their puts settle.
C16_OrderOfIssue ==
    \A i, j \in 1..Len(capturedMedia) :
        (i < j /\ capturedMedia[i].id > MaxStored /\ capturedMedia[j].id > MaxStored) =>
            capturedMedia[i].id > capturedMedia[j].id

\* --------------------------------------------------------------- C17
\* C17 as stated: in every reachable state the Collection is ordered newest
\* first: the timestamps never increase from one position to the next.
C17_NewestFirst ==
    \A i, j \in 1..Len(capturedMedia) :
        i < j => capturedMedia[i].timestamp >= capturedMedia[j].timestamp

\* --------------------------------------------------------------- C18
\* C18 as stated: in every reachable state no two handles of the Collection
\* have the same id and no two entries of the store have the same id, also
\* when addMedia is given a record more than once or an add overlaps the
\* restore.
C18_OneHandleOneEntryPerId ==
    /\ \A i, j \in 1..Len(capturedMedia) :
          capturedMedia[i].id = capturedMedia[j].id => i = j
    /\ \A r1, r2 \in store : r1.id = r2.id => r1 = r2

\* --------------------------------------------------------------- C19
\* The number of deletes in the queues oq (open requests) and tq (transactions).
DeletesPending(oq, tq) == Len(SelectSeq(oq \o tq, LAMBDA r : r.kind = "delete"))

\* C19: removeMedia(id) leaves no handle of the id; it issues one delete, for
\* the handle's indexedDbId, when the handle has one, and makes no store
\* call when it has none; no other step issues a delete; when a delete
\* settles, failed or not, the Collection stays as it is and no store call is
\* made.
C19_DeleteOnlyForMirrored ==
    /\ [][ev'.op = "removeMedia" =>
             LET removed == capturedMedia[FindMedia(capturedMedia, ev'.id)]
                 issued == IF Len(txQ') > Len(txQ) THEN txQ'[Len(txQ')] ELSE openQ'[Len(openQ')]
             IN /\ ev'.id \notin {capturedMedia'[i].id : i \in 1..Len(capturedMedia')}
                /\ IF removed.indexedDbId # NoIndexedDbId
                   THEN /\ Len(openQ') + Len(txQ') = Len(openQ) + Len(txQ) + 1
                        /\ issued.kind = "delete" /\ issued.id = removed.indexedDbId
                   ELSE UNCHANGED <<openQ, txQ>>]_vars
    /\ [][DeletesPending(openQ', txQ') > DeletesPending(openQ, txQ) => ev'.op = "removeMedia"]_vars
    /\ [][ev'.op = "deleteMedia" =>
             /\ capturedMedia' = capturedMedia
             /\ Len(openQ') + Len(txQ') = Len(openQ) + Len(txQ) - 1]_vars

\* removeMedia has just removed the handle of a record whose put had failed:
\* the handle is gone and no delete is in flight.
C19_Witness ==
    /\ ev.op = "removeMedia" /\ Mounted
    /\ \E f \in putFailed : f[1] = ev.id /\ f[2] = session
    /\ ev.id \notin CollectionIds
    /\ DeletesPending(openQ, txQ) = 0

\* --------------------------------------------------------------- C20
\* C20 as stated: when the restore replaces the Collection (getAllMedia
\* returned records), the object URL of every handle of the Collection it
\* replaces has been revoked exactly once.
C20_RestoreRevokesDiscarded ==
    [][(ev'.op = "getAllMedia" /\ ev'.ok /\ Mounted /\ store # {}) =>
          \A i \in 1..Len(capturedMedia) :
              capturedMedia[i].url # EmptyUrl => Len(revokes'[capturedMedia[i].url]) = 1]_vars

\* --------------------------------------------------------------- C21
\* C21 as stated: the main interface is rendered only when permissionState
\* is 'granted' and the initial check has finished; while permissionState is
\* 'loading' or 'denied' the loading screen or the denial screen is rendered,
\* whether the loading screen is disabled or not.
C21_MainOnlyWhenGranted ==
    app.mounted =>
       /\ Screen(app) = "main" =>
             (app.permissionState = "granted" /\ app.initialPermissionChecked)
       /\ app.permissionState \in {"loading", "denied"} =>
             Screen(app) \in {"loading", "denied"}

\* C21 amended: with the loading screen not disabled, the main interface is
\* rendered only when permissionState is 'granted' and the initial check has
\* finished, and the loading or the denial screen otherwise; with the loading
\* screen disabled, the loading screen is never rendered: the denial screen
\* is rendered exactly while permissionState is 'denied' and the main
\* interface otherwise, 'loading' and the time before the initial check has
\* finished included.
C21_MainOnlyWhenGrantedUnlessDisabled ==
    app.mounted =>
       IF ~app.isLoadingScreenDisabled
       THEN /\ Screen(app) = "main" =>
                  (app.permissionState = "granted" /\ app.initialPermissionChecked)
            /\ app.permissionState \in {"loading", "denied"} =>
                  Screen(app) \in {"loading", "denied"}
       ELSE /\ Screen(app) = "denied" <=> app.permissionState = "denied"
            /\ Screen(app) = "main" <=> app.permissionState # "denied"

\* The loading screen is disabled, the initial check found that the
\* permission has to be asked for, and the main interface is rendered while
\* requestPermissions is in flight.
C21_Witness ==
    /\ app.mounted /\ app.isLoadingScreenDisabled
    /\ app.initialPermissionChecked /\ app.permissionState = "loading"
    /\ app.requesting
    /\ Screen(app) = "main"

\* --------------------------------------------------------------- C22
\* C22: a detectFruits call with a ready detector reaches the detector only
\* if more than processingInterval ms have passed since the previous call
\* that reached it; a throttled call changes neither status, error nor
\* detectionResults and makes no call to the detector.
C22_Throttles ==
    [][/\ ev'.op = "detectFruits" =>
             /\ IsReady(detection.detector)
             /\ detection'.inflight = detection.inflight \cup {ev'.id}
             /\ ev'.id \notin detection.inflight
             /\ Len(detection.calls) > 0 =>
                   detection.time - detection.calls[Len(detection.calls)] > ProcessingInterval
       /\ ev'.op = "detectFruits.throttled" =>
             /\ IsReady(detection.detector)
             /\ Len(detection.calls) > 0
             /\ detection.time - detection.calls[Len(detection.calls)] <= ProcessingInterval
             /\ detection'.status = detection.status
             /\ detection'.error = detection.error
             /\ detection'.detectionResults = detection.detectionResults
             /\ detection'.calls = detection.calls
             /\ detection'.inflight = detection.inflight
             /\ detection'.lastProcessingTime = detection.lastProcessingTime]_vars

\* A call made exactly processingInterval ms after the one that reached the
\* detector was throttled, while that request is still being processed.
C22_Witness ==
    /\ ev.op = "detectFruits.throttled"
    /\ Len(detection.calls) > 0
    /\ detection.time - detection.calls[Len(detection.calls)] = ProcessingInterval
    /\ detection.status = "processing"

\* --------------------------------------------------------------- C23
\* C23: detectFruits without a ready detector sets status to 'error' and error
\* to the 'Detector not initialized' message, calls no detector, leaves
\* lastProcessingTime as it is and leaves detectionResults as they are.
C23_NotReadyRejects ==
    [][ev'.op = "detectFruits.notReady" =>
          /\ ~IsReady(detection.detector)
          /\ detection'.status = "error"
          /\ detection'.error = NotInitializedMessage
          /\ detection'.calls = detection.calls
          /\ detection'.inflight = detection.inflight
          /\ detection'.lastProcessingTime = detection.lastProcessingTime
          /\ detection'.detectionResults = detection.detectionResults]_vars

\* detectFruits was called on a detector that is not ready, at a time when
\* the throttle window was open and results of an earlier request were shown.
C23_Witness ==
    /\ ev.op = "detectFruits.notReady"
    /\ detection.detector = "notReady"
    /\ detection.detectionResults # NoResults
    /\ ShouldProcessFrame(detection.time, detection.lastProcessingTime)
    /\ detection.status = "error"

\* --------------------------------------------------------------- C28
\* C28: the answer to a request that arrives after the answer to a request
\* started later changes neither detectionResults nor status.
C28_LatestRequestWins ==
    [][(/\ ev'.op = "detectFruits.done"
        /\ \E m \in detection.responded : m > ev'.id) =>
          /\ detection'.detectionResults = detection.detectionResults
          /\ detection'.status = detection.status]_vars

\* --------------------------------------------------------------- C29
\* C29: after clearResults and until detectFruits is called again, the answer
\* to a request that was in flight leaves detectionResults null and status
\* 'idle'.
C29_ClearedStaysCleared ==
    [][(detection.cleared /\ ev'.op = "detectFruits.done") =>
          /\ detection'.detectionResults = NoResults
          /\ detection'.status = "idle"]_vars

\* --------------------------------------------------------------- C30
\* C30: status 'success' implies error is null and detectionResults is not
\* null; status 'error' implies error is not null; isProcessing is true
\* exactly when status is 'processing'.
C30_StateConsistent ==
    /\ detection.status = "success" =>
          (detection.error = NoError /\ detection.detectionResults # NoResults)
    /\ detection.status = "error" => detection.error # NoError
    /\ IsProcessing(detection) <=> detection.status = "processing"

\* --------------------------------------------------------------- C24
\* C24: toggleCameraFacing switches cameraFacing between 'user' and
\* 'environment', and while the environment stays as it is the camera facing
\* effect leaves the switched value in place, in an iframe or not.
C24_ToggledFacingPersists ==
    [][/\ ev'.op = "toggleCameraFacing" =>
             /\ app'.cameraFacing # app.cameraFacing
             /\ app'.cameraFacing \in CameraFacing
       /\ (app.toggled /\ ev'.op = "facingEffect") =>
             app'.cameraFacing = app.cameraFacing]_vars

\* --------------------------------------------------------------- C25
\* The number of handles of the Collection with the given id.
CopiesInCollection(id) == Cardinality({i \in 1..Len(capturedMedia) : capturedMedia[i].id = id})

\* C25: once the restore and every put have settled, every record that was
\* given to addMedia while the restore was in flight is in the Collection
\* exactly once, and, the restore having succeeded, so is every record of
\* the store.
C25_AddDuringRestoreKept ==
    (Mounted /\ ~isLoading /\ Pending = {}) =>
       /\ \A id \in (MaxStored + 1)..clock : CopiesInCollection(id) = 1
       /\ (nFailures = 0 \/ putFailed # {}) =>
             \A id \in StoreIds : CopiesInCollection(id) = 1

\* --------------------------------------------------------------- C26
\* C26: in every state, no handle of the Collection of the mounted hook has
\* a 'blob:' url that was revoked.
C26_NoRevokedUrlInCollection ==
    Mounted =>
       \A i \in 1..Len(capturedMedia) :
          StartsWithBlob(capturedMedia[i].url) => ~Revoked(capturedMedia[i].url)

\* removeMedia and clearAllMedia have both revoked urls, and the Collection
\* holds handles again.
C26_Witness ==
    /\ Mounted
    /\ Len(capturedMedia) > 0
    /\ \E u \in DOMAIN revokes : "removeMedia" \in Callers(u)
    /\ \E u \in DOMAIN revokes : "clearAllMedia" \in Callers(u)

\* --------------------------------------------------------------- C27
\* C27: a record whose storeMedia resolved, so that its handle carries
\* indexedDbId, is in the store (no delete or clear is ever made here), and
\* so in what a later getAllMedia returns, also when the write transaction
\* aborts after the put request succeeded.
C27_ResolvedPutIsDurable ==
    /\ ev.op = "storeMedia" /\ ev.ok => ev.id \in StoreIds
    /\ \A i \in 1..Len(capturedMedia) :
          HasStoreMirror(capturedMedia[i]) => capturedMedia[i].indexedDbId \in StoreIds

====
